---- MODULE Spec2Model ----
(***************************************************************************)
(* Model of the resource-group REST handler                                *)
(* (api/restHandler/ResourceGroupRestHandler.go).                          *)
(*                                                                         *)
(* Every request is served by its own goroutine; the locals of the handler *)
(* that serves it are the entries of the per-request functions below.      *)
(* A handler is cut into the steps between its calls to collaborators      *)
(* (user service, JSON decoder, validator, resource-group service,         *)
(* enforcer), whose outcomes are inputs chosen with \E.                    *)
(***************************************************************************)
EXTENDS Integers, Sequences, FiniteSets, TLC

\* ------------------------------------------------------------------ bounds
NumProcs == 2       \* request goroutines the model has room for
MaxEnvId == 1       \* environmentId of a body ranges over -1..MaxEnvId
MaxIds == 1         \* longest resourceIds / appIds list of a body
MaxObjs == 1        \* longest object list the service hands a strategy
MaxAuthCalls == 2   \* strategy invocations the service makes per request
MaxText == 3        \* longest text, in characters, built from Alphabet

\* ------------------------------------------------------- program constants
StatusOK == 200
StatusBadRequest == 400
StatusUnauthorized == 401
StatusInternalServerError == 500

APP_GROUP == "APP_GROUP"
ENV_GROUP == "ENV_GROUP"

\* -------------------------------------------------------------- input sets
Procs == 1..NumProcs

Ops == {"GetActiveResourceGroupList", "CreateResourceGroup", "UpdateResourceGroup",
        "DeleteResourceGroup", "CheckResourceGroupPermissions"}
BodyOps == {"CreateResourceGroup", "UpdateResourceGroup", "CheckResourceGroupPermissions"}

\* group-kind tokens a client may send: the three aliases and some others
ValidTokens == {"", "app-group", "env-group"}
Tokens == ValidTokens \cup {"bad", "env", "App-Group"}

\* a path parameter is text: a sequence of characters
PathIds == { <<"5">>, <<"x">> }

ResIdLists == { [i \in 1..n |-> 20 + i] : n \in 0..MaxIds }
AppIdLists == { [i \in 1..n |-> 10 + i] : n \in 0..MaxIds }
EnvIds == (-1)..MaxEnvId
ParentIds == {0, 9}
BodyUserIds == {0, 8}

\* what GetLoggedInUser may return
LoggedIn == { [userId |-> 1, err |-> "nil"], [userId |-> 0, err |-> "nil"],
              [userId |-> 0, err |-> "errUser"], [userId |-> 1, err |-> "errUser"] }

\* object identifiers are opaque to the strategies: 101, 102, ...
ObjLists == { [i \in 1..n |-> 100 + i] : n \in 0..MaxObjs }
AuthActions == {"get"}

\* ------------------------------------------------------------------- values
\* var request resourceGroup.ResourceGroupDto : the zero value
ZeroDto == [GroupType |-> "", ParentResourceId |-> 0, ResourceIds |-> <<>>,
            AppIds |-> <<>>, EnvironmentId |-> 0, UserId |-> 0,
            CheckAuthBatch |-> "nil"]

\* the requests a JSON body can decode to
Bodies == [GroupType : Tokens, ParentResourceId : ParentIds, ResourceIds : ResIdLists,
           AppIds : AppIdLists, EnvironmentId : EnvIds, UserId : BodyUserIds,
           CheckAuthBatch : {"nil"}]

\* var appResult map[string]bool : the nil map, which holds nothing
NilMap == << >>

Range(s) == { s[i] : i \in 1..Len(s) }

\* the maps Enforcer.EnforceInBatch may return for a list of objects
EnforceResults(objs) == UNION { [S -> BOOLEAN] : S \in SUBSET Range(objs) }

\* strconv.Atoi on the path parameters of the model: optional sign, then digits
DigitVal(c) == CASE c = "0" -> 0 [] c = "1" -> 1 [] c = "2" -> 2 [] c = "3" -> 3
                 [] c = "4" -> 4 [] c = "5" -> 5 [] c = "6" -> 6 [] c = "7" -> 7
                 [] c = "8" -> 8 [] c = "9" -> 9 [] OTHER -> -1

RECURSIVE DigitsVal(_, _)
DigitsVal(s, acc) ==
    IF s = <<>> THEN acc
    ELSE IF DigitVal(Head(s)) < 0 \/ acc < 0 THEN -1
    ELSE DigitsVal(Tail(s), 10 * acc + DigitVal(Head(s)))

Atoi(s) ==
    LET signed == s # <<>> /\ Head(s) \in {"+", "-"}
        digits == IF signed THEN Tail(s) ELSE s
        n == IF digits = <<>> THEN -1 ELSE DigitsVal(digits, 0)
    IN  IF n < 0 THEN [val |-> 0, err |-> "errAtoi"]
        ELSE [val |-> IF signed /\ Head(s) = "-" THEN 0 - n ELSE n, err |-> "nil"]

\* ------------------------------------------------- resolver and strategies
\* seeded fault: the empty token of old clients is not accepted
getGroupTypeAndAuthFunc_NoEmptyToken(token) ==
    IF token = "env-group"
    THEN [groupType |-> ENV_GROUP, authFunc |-> "checkEnvAuthBatch", err |-> "nil"]
    ELSE IF token = "app-group"
    THEN [groupType |-> APP_GROUP, authFunc |-> "checkAppAuthBatch", err |-> "nil"]
    ELSE [groupType |-> "", authFunc |-> "nil", err |-> "errInvalidGroupType"]

getGroupTypeAndAuthFunc(token) ==
    IF token = "env-group"
    THEN [groupType |-> ENV_GROUP, authFunc |-> "checkEnvAuthBatch", err |-> "nil"]
    ELSE IF token = "" \/ token = "app-group"
    THEN [groupType |-> APP_GROUP, authFunc |-> "checkAppAuthBatch", err |-> "nil"]
    ELSE [groupType |-> "", authFunc |-> "nil", err |-> "errInvalidGroupType"]

\* enforced: the map handler.enforcer.EnforceInBatch returns if it is called
checkAppAuthBatch(appObject, action, enforced) ==
    IF Len(appObject) > 0
    THEN [result |-> enforced,
          calls |-> << [resource |-> "ResourceApplications", action |-> action,
                        objects |-> appObject, result |-> enforced] >>]
    ELSE [result |-> NilMap, calls |-> << >>]

\* seeded fault: the environment strategy asks about the applications resource
checkEnvAuthBatch_AppResource(envObject, action, enforced) ==
    IF Len(envObject) > 0
    THEN [result |-> enforced,
          calls |-> << [resource |-> "ResourceApplications", action |-> action,
                        objects |-> envObject, result |-> enforced] >>]
    ELSE [result |-> NilMap, calls |-> << >>]

checkEnvAuthBatch(envObject, action, enforced) ==
    IF Len(envObject) > 0
    THEN [result |-> enforced,
          calls |-> << [resource |-> "ResourceEnvironment", action |-> action,
                        objects |-> envObject, result |-> enforced] >>]
    ELSE [result |-> NilMap, calls |-> << >>]

\* seeded fault: appIds are looked at only when environmentId is set
LegacyProjection_Nested(req, kind) ==
    IF kind = APP_GROUP /\ req.EnvironmentId > 0
    THEN LET r1 == [req EXCEPT !.ParentResourceId = req.EnvironmentId]
         IN  IF Len(r1.AppIds) > 0 THEN [r1 EXCEPT !.ResourceIds = r1.AppIds] ELSE r1
    ELSE req

\* seeded fault: the projections are applied whatever the kind
LegacyProjection_AnyKind(req, kind) ==
    LET r1 == IF req.EnvironmentId > 0
              THEN [req EXCEPT !.ParentResourceId = req.EnvironmentId]
              ELSE req
    IN  IF Len(r1.AppIds) > 0 THEN [r1 EXCEPT !.ResourceIds = r1.AppIds] ELSE r1

\* the backward-compatibility block the three body handlers share
LegacyProjection(req, kind) ==
    IF kind = APP_GROUP
    THEN LET r1 == IF req.EnvironmentId > 0
                   THEN [req EXCEPT !.ParentResourceId = req.EnvironmentId]
                   ELSE req
         IN  IF Len(r1.AppIds) > 0 THEN [r1 EXCEPT !.ResourceIds = r1.AppIds] ELSE r1
    ELSE req

\* ---------------------------------------------------------------- state
VARIABLES
    workers,      \* the goroutines that serve requests
    pc,           \* pc[p]: where goroutine p is in its handler
    op,           \* op[p]: the handler p runs
    vars,         \* mux.Vars(r): the path parameters of the request
    userId,       \* local userId
    request,      \* local request (the DTO handed to the service by pointer)
    resourceId,   \* local resourceId / resourceGroupId
    groupType,    \* local groupType
    authFunc,     \* local authFunc
    err,          \* local err
    body,         \* history: what the body decoded to (at most one entry)
    steps,        \* history: the steps taken, each with the error it returned
    resolverLog,  \* history: calls of getGroupTypeAndAuthFunc, argument and results
    valLog,       \* history: calls of validator.Struct, payload and error
    svcCalls,     \* history: calls of the ResourceGroupService, with arguments
    authCount,    \* strategy invocations made by the service for this request
    lastAuth,     \* the latest strategy invocation (at most one entry)
    resp,         \* responses written with common.WriteJsonResp
    svcRet,       \* history: what the service operation returned (at most one entry)
    cpc,          \* type coercion helper: where a conversion run is
    cIn,          \* the typed value given to StringifyValue
    cStr,         \* the text StringifyValue returned or DestringifyValue is given
    cOut,         \* what DestringifyValue returned
    cStr2         \* StringifyValue of that result

\* the conversion helper at rest
NoValue == [kind |-> "none", text |-> << >>, int |-> 0, bool |-> FALSE]
NoText == [value |-> << >>, err |-> "none"]

handlerVars == <<userId, request, resourceId, groupType, authFunc, err>>
historyVars == <<body, resolverLog, valLog, svcCalls, authCount, lastAuth>>
coerceVars == <<cpc, cIn, cStr, cOut, cStr2>>
\* what no step of a handler touches before the service has returned
envVars == <<workers, coerceVars, svcRet>>
requestVars == <<pc, op, vars, handlerVars, historyVars, steps, resp, svcRet>>
allVars == <<workers, requestVars, coerceVars>>

\* no request is being served
AtRest ==
    /\ pc = [p \in Procs |-> "idle"]
    /\ op = [p \in Procs |-> "none"]
    /\ vars = [p \in Procs |-> [resourceId |-> << >>, groupType |-> ""]]
    /\ userId = [p \in Procs |-> 0]
    /\ request = [p \in Procs |-> ZeroDto]
    /\ resourceId = [p \in Procs |-> 0]
    /\ groupType = [p \in Procs |-> ""]
    /\ authFunc = [p \in Procs |-> "nil"]
    /\ err = [p \in Procs |-> "nil"]
    /\ body = [p \in Procs |-> << >>]
    /\ steps = [p \in Procs |-> << >>]
    /\ resolverLog = [p \in Procs |-> << >>]
    /\ valLog = [p \in Procs |-> << >>]
    /\ svcCalls = [p \in Procs |-> << >>]
    /\ authCount = [p \in Procs |-> 0]
    /\ lastAuth = [p \in Procs |-> << >>]
    /\ resp = [p \in Procs |-> << >>]
    /\ svcRet = [p \in Procs |-> << >>]

\* no value is being converted
CoerceOff ==
    /\ cpc = "off"
    /\ cIn = NoValue
    /\ cStr = NoText
    /\ cOut = NoValue
    /\ cStr2 = NoText

Init ==
    /\ workers = {1}
    /\ AtRest
    /\ CoerceOff

\* --------------------------------------------------------- shared pieces
\* one step of p's handler: it moves to `to` and records what it did
Goto(p, name, e, to) ==
    /\ pc' = [pc EXCEPT ![p] = to]
    /\ steps' = [steps EXCEPT ![p] = Append(@, [name |-> name, err |-> e])]
    /\ err' = [err EXCEPT ![p] = e]

\* common.WriteJsonResp(w, e, data, status)
WriteJsonResp(p, e, data, status) ==
    resp' = [resp EXCEPT ![p] = Append(@, [status |-> status, err |-> e, data |-> data])]

NoResp == UNCHANGED resp

\* the payload validator.Struct is given
Validated(p, e) ==
    valLog' = [valLog EXCEPT ![p] = Append(@, [payload |-> request[p], err |-> e])]

ValidationErrs == {"nil", "errValidation"}

\* what a service operation may return: (result, nil), (nil, err), (partial, err)
ServiceResults == { [res |-> "result", err |-> "nil"], [res |-> "none", err |-> "errService"],
                    [res |-> "partial", err |-> "errService"] }

\* a step that calls no collaborator leaves err alone
Move(p, name, to) ==
    /\ pc' = [pc EXCEPT ![p] = to]
    /\ steps' = [steps EXCEPT ![p] = Append(@, [name |-> name, err |-> "nil"])]
    /\ UNCHANGED err

At(p, o, label) == p \in workers /\ op[p] = o /\ pc[p] = label

\* ------------------------------------------------------- request arrival
\* the router hands goroutine p a request for one of the five handlers
Start(p) ==
    /\ p \in workers
    /\ pc[p] = "idle"
    /\ \E o \in Ops :
         /\ op' = [op EXCEPT ![p] = o]
         /\ pc' = [pc EXCEPT ![p] = IF o \in BodyOps THEN "identify" ELSE "atoi"]
         /\ \E id \in PathIds, t \in Tokens :
              /\ o \in BodyOps => t = ""
              /\ o = "UpdateResourceGroup" => id = << "5" >>
              /\ vars' = [vars EXCEPT ![p] = [resourceId |-> id, groupType |-> t]]
    /\ UNCHANGED <<envVars, handlerVars, historyVars, steps, resp>>

\* the handler has returned: its locals are gone, p is free for a request
Return(p) ==
    /\ p \in workers
    /\ pc[p] = "done"
    /\ pc' = [pc EXCEPT ![p] = "idle"]
    /\ op' = [op EXCEPT ![p] = "none"]
    /\ vars' = [vars EXCEPT ![p] = [resourceId |-> << >>, groupType |-> ""]]
    /\ userId' = [userId EXCEPT ![p] = 0]
    /\ request' = [request EXCEPT ![p] = ZeroDto]
    /\ resourceId' = [resourceId EXCEPT ![p] = 0]
    /\ groupType' = [groupType EXCEPT ![p] = ""]
    /\ authFunc' = [authFunc EXCEPT ![p] = "nil"]
    /\ err' = [err EXCEPT ![p] = "nil"]
    /\ body' = [body EXCEPT ![p] = << >>]
    /\ steps' = [steps EXCEPT ![p] = << >>]
    /\ resolverLog' = [resolverLog EXCEPT ![p] = << >>]
    /\ valLog' = [valLog EXCEPT ![p] = << >>]
    /\ svcCalls' = [svcCalls EXCEPT ![p] = << >>]
    /\ authCount' = [authCount EXCEPT ![p] = 0]
    /\ lastAuth' = [lastAuth EXCEPT ![p] = << >>]
    /\ resp' = [resp EXCEPT ![p] = << >>]
    /\ svcRet' = [svcRet EXCEPT ![p] = << >>]
    /\ UNCHANGED <<workers, coerceVars>>

\* ------------------------------------------- GetActiveResourceGroupList
ListAtoi(p) ==
    /\ At(p, "GetActiveResourceGroupList", "atoi")
    /\ LET a == Atoi(vars[p].resourceId) IN
         /\ resourceId' = [resourceId EXCEPT ![p] = a.val]
         /\ IF a.err # "nil"
            THEN Goto(p, "atoi", a.err, "done")
                 /\ WriteJsonResp(p, a.err, "none", StatusBadRequest)
            ELSE Goto(p, "atoi", a.err, "resolve") /\ NoResp
    /\ UNCHANGED <<envVars, op, vars, userId, request, groupType, authFunc, historyVars>>

\* seeded fault: the return after the 400 of an unresolved kind is missing
ListResolve_NoReturn(p) ==
    /\ At(p, "GetActiveResourceGroupList", "resolve")
    /\ LET r == getGroupTypeAndAuthFunc(vars[p].groupType) IN
         /\ resolverLog' = [resolverLog EXCEPT ![p] =
                              Append(@, [token |-> vars[p].groupType, groupType |-> r.groupType,
                                         authFunc |-> r.authFunc, err |-> r.err])]
         /\ groupType' = [groupType EXCEPT ![p] = r.groupType]
         /\ authFunc' = [authFunc EXCEPT ![p] = r.authFunc]
         /\ Goto(p, "resolve", r.err, "delegate")
         /\ IF r.err # "nil"
            THEN WriteJsonResp(p, r.err, "none", StatusBadRequest)
            ELSE NoResp
    /\ UNCHANGED <<envVars, op, vars, userId, request, resourceId,
                   body, valLog, svcCalls, authCount, lastAuth>>

ListResolve(p) ==
    /\ At(p, "GetActiveResourceGroupList", "resolve")
    /\ LET r == getGroupTypeAndAuthFunc(vars[p].groupType) IN
         /\ resolverLog' = [resolverLog EXCEPT ![p] =
                              Append(@, [token |-> vars[p].groupType, groupType |-> r.groupType,
                                         authFunc |-> r.authFunc, err |-> r.err])]
         /\ groupType' = [groupType EXCEPT ![p] = r.groupType]
         /\ authFunc' = [authFunc EXCEPT ![p] = r.authFunc]
         /\ IF r.err # "nil"
            THEN Goto(p, "resolve", r.err, "done")
                 /\ WriteJsonResp(p, r.err, "none", StatusBadRequest)
            ELSE Goto(p, "resolve", r.err, "delegate") /\ NoResp
    /\ UNCHANGED <<envVars, op, vars, userId, request, resourceId,
                   body, valLog, svcCalls, authCount, lastAuth>>

ListDelegate(p) ==
    /\ At(p, "GetActiveResourceGroupList", "delegate")
    /\ svcCalls' = [svcCalls EXCEPT ![p] =
                      Append(@, [op |-> op[p], request |-> ZeroDto, id |-> resourceId[p],
                                 groupType |-> groupType[p], authFunc |-> authFunc[p]])]
    /\ Move(p, "delegate", "service")
    /\ UNCHANGED <<envVars, op, vars, userId, request, resourceId, groupType, authFunc,
                   body, resolverLog, valLog, authCount, lastAuth, resp>>

ListReturn(p) ==
    /\ At(p, "GetActiveResourceGroupList", "service")
    /\ \E r \in ServiceResults :
         /\ Goto(p, "service", r.err, "done")
         /\ svcRet' = [svcRet EXCEPT ![p] = << r >>]
         /\ IF r.err # "nil"
            THEN WriteJsonResp(p, r.err, "none", StatusInternalServerError)
            ELSE WriteJsonResp(p, "nil", r.res, StatusOK)
    /\ UNCHANGED <<workers, coerceVars, op, vars, userId, request, resourceId, groupType, authFunc,
                   historyVars>>

\* -------------------------------------------------- DeleteResourceGroup
DeleteAtoi(p) ==
    /\ At(p, "DeleteResourceGroup", "atoi")
    /\ LET a == Atoi(vars[p].resourceId) IN
         /\ resourceId' = [resourceId EXCEPT ![p] = a.val]
         /\ IF a.err # "nil"
            THEN Goto(p, "atoi", a.err, "done")
                 /\ WriteJsonResp(p, a.err, "", StatusBadRequest)
            ELSE Goto(p, "atoi", a.err, "resolve") /\ NoResp
    /\ UNCHANGED <<envVars, op, vars, userId, request, groupType, authFunc, historyVars>>

\* the error of the resolver is assigned to err and not looked at
DeleteResolve(p) ==
    /\ At(p, "DeleteResourceGroup", "resolve")
    /\ LET r == getGroupTypeAndAuthFunc(vars[p].groupType) IN
         /\ resolverLog' = [resolverLog EXCEPT ![p] =
                              Append(@, [token |-> vars[p].groupType, groupType |-> r.groupType,
                                         authFunc |-> r.authFunc, err |-> r.err])]
         /\ groupType' = [groupType EXCEPT ![p] = r.groupType]
         /\ authFunc' = [authFunc EXCEPT ![p] = r.authFunc]
         /\ Goto(p, "resolve", r.err, "delegate")
    /\ NoResp
    /\ UNCHANGED <<envVars, op, vars, userId, request, resourceId,
                   body, valLog, svcCalls, authCount, lastAuth>>

DeleteDelegate(p) ==
    /\ At(p, "DeleteResourceGroup", "delegate")
    /\ svcCalls' = [svcCalls EXCEPT ![p] =
                      Append(@, [op |-> op[p], request |-> ZeroDto, id |-> resourceId[p],
                                 groupType |-> groupType[p], authFunc |-> authFunc[p]])]
    /\ Move(p, "delegate", "service")
    /\ UNCHANGED <<envVars, op, vars, userId, request, resourceId, groupType, authFunc,
                   body, resolverLog, valLog, authCount, lastAuth, resp>>

DeleteReturn(p) ==
    /\ At(p, "DeleteResourceGroup", "service")
    /\ \E r \in ServiceResults :
         /\ Goto(p, "service", r.err, "done")
         /\ svcRet' = [svcRet EXCEPT ![p] = << r >>]
         /\ IF r.err # "nil"
            THEN WriteJsonResp(p, r.err, "none", StatusInternalServerError)
            ELSE WriteJsonResp(p, "nil", r.res, StatusOK)
    /\ UNCHANGED <<workers, coerceVars, op, vars, userId, request, resourceId, groupType, authFunc,
                   historyVars>>

\* ------------------------------------- steps the three body handlers share
\* seeded fault: only the error of GetLoggedInUser is looked at, not userId
Identify_ErrOnly(p, o) ==
    /\ At(p, o, "identify")
    /\ \E u \in LoggedIn :
         /\ userId' = [userId EXCEPT ![p] = u.userId]
         /\ IF u.err # "nil"
            THEN Goto(p, "identify", u.err, "done")
                 /\ WriteJsonResp(p, u.err, "Unauthorized User", StatusUnauthorized)
            ELSE Goto(p, "identify", u.err, "decode") /\ NoResp
    /\ UNCHANGED <<envVars, op, vars, request, resourceId, groupType, authFunc, historyVars>>

\* userId, err := handler.userService.GetLoggedInUser(r)
Identify(p, o) ==
    /\ At(p, o, "identify")
    /\ \E u \in LoggedIn :
         /\ userId' = [userId EXCEPT ![p] = u.userId]
         /\ IF u.userId = 0 \/ u.err # "nil"
            THEN Goto(p, "identify", u.err, "done")
                 /\ WriteJsonResp(p, u.err, "Unauthorized User", StatusUnauthorized)
            ELSE Goto(p, "identify", u.err, "decode") /\ NoResp
    /\ UNCHANGED <<envVars, op, vars, request, resourceId, groupType, authFunc, historyVars>>

\* seeded fault: the return after the 400 of a failed Decode is missing
Decode_NoReturn(p, o, next) ==
    /\ At(p, o, "decode")
    /\ \/ \E partial \in Bodies \cup {ZeroDto} :
            /\ request' = [request EXCEPT ![p] = [partial EXCEPT !.UserId = userId[p]]]
            /\ body' = [body EXCEPT ![p] = << partial >>]
            /\ Goto(p, "decode", "errDecode", next)
            /\ WriteJsonResp(p, "errDecode", "none", StatusBadRequest)
       \/ \E b \in Bodies :
            /\ request' = [request EXCEPT ![p] = [b EXCEPT !.UserId = userId[p]]]
            /\ body' = [body EXCEPT ![p] = << b >>]
            /\ Goto(p, "decode", "nil", next)
            /\ NoResp
    /\ UNCHANGED <<envVars, op, vars, userId, resourceId, groupType, authFunc,
                   resolverLog, valLog, svcCalls, authCount, lastAuth>>

\* seeded fault: request.UserId is left as the body gave it
Decode_KeepsBodyUser(p, o, next) ==
    /\ At(p, o, "decode")
    /\ \/ \E partial \in Bodies \cup {ZeroDto} :
            /\ request' = [request EXCEPT ![p] = partial]
            /\ Goto(p, "decode", "errDecode", "done")
            /\ WriteJsonResp(p, "errDecode", "none", StatusBadRequest)
            /\ UNCHANGED body
       \/ \E b \in Bodies :
            /\ request' = [request EXCEPT ![p] = b]
            /\ body' = [body EXCEPT ![p] = << b >>]
            /\ Goto(p, "decode", "nil", next)
            /\ NoResp
    /\ UNCHANGED <<envVars, op, vars, userId, resourceId, groupType, authFunc,
                   resolverLog, valLog, svcCalls, authCount, lastAuth>>

\* err = decoder.Decode(&request); request.UserId = userId
\* (a failed Decode may have filled part of request)
Decode(p, o, next) ==
    /\ At(p, o, "decode")
    /\ \/ \E partial \in Bodies \cup {ZeroDto} :
            /\ request' = [request EXCEPT ![p] = partial]
            /\ Goto(p, "decode", "errDecode", "done")
            /\ WriteJsonResp(p, "errDecode", "none", StatusBadRequest)
            /\ UNCHANGED body
       \/ \E b \in Bodies :
            /\ request' = [request EXCEPT ![p] = [b EXCEPT !.UserId = userId[p]]]
            /\ body' = [body EXCEPT ![p] = << b >>]
            /\ Goto(p, "decode", "nil", next)
            /\ NoResp
    /\ UNCHANGED <<envVars, op, vars, userId, resourceId, groupType, authFunc,
                   resolverLog, valLog, svcCalls, authCount, lastAuth>>

\* err = handler.validator.Struct(request)
Validate(p, o, label, next) ==
    /\ At(p, o, label)
    /\ \E e \in ValidationErrs :
         /\ Validated(p, e)
         /\ IF e # "nil"
            THEN Goto(p, "validate", e, "done")
                 /\ WriteJsonResp(p, e, "none", StatusBadRequest)
            ELSE Goto(p, "validate", e, next) /\ NoResp
    /\ UNCHANGED <<envVars, op, vars, userId, request, resourceId, groupType, authFunc,
                   body, resolverLog, svcCalls, authCount, lastAuth>>

\* resourceId, err := strconv.Atoi(vars["resourceId"])
BodyAtoi(p, o, next) ==
    /\ At(p, o, "atoi")
    /\ LET a == Atoi(vars[p].resourceId) IN
         /\ resourceId' = [resourceId EXCEPT ![p] = a.val]
         /\ IF a.err # "nil"
            THEN Goto(p, "atoi", a.err, "done")
                 /\ WriteJsonResp(p, a.err, "none", StatusBadRequest)
            ELSE Goto(p, "atoi", a.err, next) /\ NoResp
    /\ UNCHANGED <<envVars, op, vars, userId, request, groupType, authFunc, historyVars>>

\* seeded fault: groupType and authFunc are fields of the handler, which all
\* goroutines share, and not locals of the call
Resolve_SharedKind(p, o) ==
    /\ At(p, o, "resolve")
    /\ LET r == getGroupTypeAndAuthFunc(request[p].GroupType) IN
         /\ resolverLog' = [resolverLog EXCEPT ![p] =
                              Append(@, [token |-> request[p].GroupType, groupType |-> r.groupType,
                                         authFunc |-> r.authFunc, err |-> r.err])]
         /\ groupType' = [q \in Procs |-> r.groupType]
         /\ authFunc' = [q \in Procs |-> r.authFunc]
         /\ IF r.err # "nil"
            THEN Goto(p, "resolve", r.err, "done")
                 /\ WriteJsonResp(p, r.err, "none", StatusBadRequest)
            ELSE Goto(p, "resolve", r.err, "normalize") /\ NoResp
    /\ UNCHANGED <<envVars, op, vars, userId, request, resourceId,
                   body, valLog, svcCalls, authCount, lastAuth>>

\* groupType, authFunc, err := handler.getGroupTypeAndAuthFunc(string(request.GroupType))
Resolve(p, o) ==
    /\ At(p, o, "resolve")
    /\ LET r == getGroupTypeAndAuthFunc(request[p].GroupType) IN
         /\ resolverLog' = [resolverLog EXCEPT ![p] =
                              Append(@, [token |-> request[p].GroupType, groupType |-> r.groupType,
                                         authFunc |-> r.authFunc, err |-> r.err])]
         /\ groupType' = [groupType EXCEPT ![p] = r.groupType]
         /\ authFunc' = [authFunc EXCEPT ![p] = r.authFunc]
         /\ IF r.err # "nil"
            THEN Goto(p, "resolve", r.err, "done")
                 /\ WriteJsonResp(p, r.err, "none", StatusBadRequest)
            ELSE Goto(p, "resolve", r.err, "normalize") /\ NoResp
    /\ UNCHANGED <<envVars, op, vars, userId, request, resourceId,
                   body, valLog, svcCalls, authCount, lastAuth>>

\* seeded fault: the strategy is not attached to the request
Delegate_NoAttach(p, o) ==
    /\ At(p, o, "delegate")
    /\ svcCalls' = [svcCalls EXCEPT ![p] =
                      Append(@, [op |-> o, request |-> request[p], id |-> 0,
                                 groupType |-> request[p].GroupType,
                                 authFunc |-> request[p].CheckAuthBatch])]
    /\ Move(p, "delegate", "service")
    /\ UNCHANGED <<envVars, op, vars, userId, request, resourceId, groupType, authFunc,
                   body, resolverLog, valLog, authCount, lastAuth, resp>>

\* request.CheckAuthBatch = authFunc; resp, err := handler.resourceGroupService.X(&request, token)
Delegate(p, o) ==
    /\ At(p, o, "delegate")
    /\ LET req == [request[p] EXCEPT !.CheckAuthBatch = authFunc[p]] IN
         /\ request' = [request EXCEPT ![p] = req]
         /\ svcCalls' = [svcCalls EXCEPT ![p] =
                           Append(@, [op |-> o, request |-> req, id |-> 0,
                                      groupType |-> req.GroupType,
                                      authFunc |-> req.CheckAuthBatch])]
    /\ Move(p, "delegate", "service")
    /\ UNCHANGED <<envVars, op, vars, userId, resourceId, groupType, authFunc,
                   body, resolverLog, valLog, authCount, lastAuth, resp>>

\* --------------------------------------------------- CreateResourceGroup
CreateIdentify(p) == Identify(p, "CreateResourceGroup")

CreateDecode(p) == Decode(p, "CreateResourceGroup", "validate1")

\* seeded fault: the decoded request is not validated before kind resolution
CreateValidateDecoded_Skipped(p) ==
    /\ At(p, "CreateResourceGroup", "validate1")
    /\ Move(p, "validate", "atoi")
    /\ UNCHANGED <<envVars, op, vars, handlerVars, historyVars, resp>>

CreateValidateDecoded(p) == Validate(p, "CreateResourceGroup", "validate1", "atoi")

CreateAtoi(p) == BodyAtoi(p, "CreateResourceGroup", "resolve")

CreateResolve(p) == Resolve(p, "CreateResourceGroup")

CreateNormalize(p) ==
    /\ At(p, "CreateResourceGroup", "normalize")
    /\ request' = [request EXCEPT ![p] =
                     LegacyProjection([@ EXCEPT !.ParentResourceId = resourceId[p],
                                                !.GroupType = groupType[p]],
                                      groupType[p])]
    /\ Move(p, "normalize", "validate")
    /\ UNCHANGED <<envVars, op, vars, userId, resourceId, groupType, authFunc,
                   historyVars, resp>>

CreateValidate(p) == Validate(p, "CreateResourceGroup", "validate", "delegate")

CreateDelegate(p) == Delegate(p, "CreateResourceGroup")

CreateReturn(p) ==
    /\ At(p, "CreateResourceGroup", "service")
    /\ \E r \in ServiceResults :
         /\ Goto(p, "service", r.err, "done")
         /\ svcRet' = [svcRet EXCEPT ![p] = << r >>]
         /\ IF r.err # "nil"
            THEN WriteJsonResp(p, r.err, "none", StatusInternalServerError)
            ELSE WriteJsonResp(p, "nil", r.res, StatusOK)
    /\ UNCHANGED <<workers, coerceVars, op, vars, userId, request, resourceId, groupType, authFunc,
                   historyVars>>

\* --------------------------------------------------- UpdateResourceGroup
UpdateIdentify(p) == Identify(p, "UpdateResourceGroup")

UpdateDecode(p) == Decode(p, "UpdateResourceGroup", "resolve")

UpdateResolve(p) == Resolve(p, "UpdateResourceGroup")

UpdateNormalize(p) ==
    /\ At(p, "UpdateResourceGroup", "normalize")
    /\ request' = [request EXCEPT ![p] =
                     LegacyProjection([@ EXCEPT !.GroupType = groupType[p]], groupType[p])]
    /\ Move(p, "normalize", "validate")
    /\ UNCHANGED <<envVars, op, vars, userId, resourceId, groupType, authFunc,
                   historyVars, resp>>

\* seeded fault: the error of the validator is logged and not acted on
UpdateValidate_Unchecked(p) ==
    /\ At(p, "UpdateResourceGroup", "validate")
    /\ \E e \in ValidationErrs :
         /\ Validated(p, e)
         /\ Goto(p, "validate", e, "delegate")
    /\ NoResp
    /\ UNCHANGED <<envVars, op, vars, userId, request, resourceId, groupType, authFunc,
                   body, resolverLog, svcCalls, authCount, lastAuth>>

UpdateValidate(p) == Validate(p, "UpdateResourceGroup", "validate", "delegate")

UpdateDelegate(p) == Delegate(p, "UpdateResourceGroup")

\* on a service error the response carries resp as the service returned it
UpdateReturn(p) ==
    /\ At(p, "UpdateResourceGroup", "service")
    /\ \E r \in ServiceResults :
         /\ Goto(p, "service", r.err, "done")
         /\ svcRet' = [svcRet EXCEPT ![p] = << r >>]
         /\ IF r.err # "nil"
            THEN WriteJsonResp(p, r.err, r.res, StatusInternalServerError)
            ELSE WriteJsonResp(p, "nil", r.res, StatusOK)
    /\ UNCHANGED <<workers, coerceVars, op, vars, userId, request, resourceId, groupType, authFunc,
                   historyVars>>

\* ----------------------------------------- CheckResourceGroupPermissions
CheckIdentify(p) == Identify(p, "CheckResourceGroupPermissions")

CheckDecode(p) == Decode(p, "CheckResourceGroupPermissions", "atoi")

CheckAtoi(p) == BodyAtoi(p, "CheckResourceGroupPermissions", "resolve")

CheckResolve(p) == Resolve(p, "CheckResourceGroupPermissions")

\* seeded fault: permission-check validates the normalized request as update does
CheckNormalize_Validating(p) ==
    /\ At(p, "CheckResourceGroupPermissions", "normalize")
    /\ LET req == LegacyProjection([request[p] EXCEPT !.GroupType = groupType[p],
                                                      !.ParentResourceId = resourceId[p]],
                                   groupType[p])
       IN  /\ request' = [request EXCEPT ![p] = req]
           /\ \E e \in ValidationErrs :
                /\ valLog' = [valLog EXCEPT ![p] = Append(@, [payload |-> req, err |-> e])]
                /\ IF e # "nil"
                   THEN Goto(p, "normalize", e, "done")
                        /\ WriteJsonResp(p, e, "none", StatusBadRequest)
                   ELSE Goto(p, "normalize", e, "delegate") /\ NoResp
    /\ UNCHANGED <<envVars, op, vars, userId, resourceId, groupType, authFunc,
                   body, resolverLog, svcCalls, authCount, lastAuth>>

\* no validator.Struct follows: the next step is the call of the service
CheckNormalize(p) ==
    /\ At(p, "CheckResourceGroupPermissions", "normalize")
    /\ request' = [request EXCEPT ![p] =
                     LegacyProjection([@ EXCEPT !.GroupType = groupType[p],
                                                !.ParentResourceId = resourceId[p]],
                                      groupType[p])]
    /\ Move(p, "normalize", "delegate")
    /\ UNCHANGED <<envVars, op, vars, userId, resourceId, groupType, authFunc,
                   historyVars, resp>>

CheckDelegate(p) == Delegate(p, "CheckResourceGroupPermissions")

\* seeded fault: the error of the service is not looked at
CheckReturn_ErrIgnored(p) ==
    /\ At(p, "CheckResourceGroupPermissions", "service")
    /\ \E r \in ServiceResults :
         /\ Goto(p, "service", r.err, "done")
         /\ svcRet' = [svcRet EXCEPT ![p] = << r >>]
         /\ WriteJsonResp(p, "nil", r.res, StatusOK)
    /\ UNCHANGED <<workers, coerceVars, op, vars, userId, request, resourceId, groupType,
                   authFunc, historyVars>>

CheckReturn(p) ==
    /\ At(p, "CheckResourceGroupPermissions", "service")
    /\ \E r \in ServiceResults :
         /\ Goto(p, "service", r.err, "done")
         /\ svcRet' = [svcRet EXCEPT ![p] = << r >>]
         /\ IF r.err # "nil"
            THEN WriteJsonResp(p, r.err, "none", StatusInternalServerError)
            ELSE WriteJsonResp(p, "nil", r.res, StatusOK)
    /\ UNCHANGED <<workers, coerceVars, op, vars, userId, request, resourceId, groupType, authFunc,
                   historyVars>>

\* ------------------------------------------------ the service at work
\* While it serves a call, the ResourceGroupService may invoke the strategy
\* it was handed, on the objects and with the action it chooses.
ServiceAuth(p) ==
    /\ p \in workers
    /\ pc[p] = "service"
    /\ authCount[p] < MaxAuthCalls
    /\ svcCalls[p][1].authFunc # "nil"
    /\ \E objs \in ObjLists, a \in AuthActions :
         \E enforced \in EnforceResults(objs) :
           LET fn == svcCalls[p][1].authFunc
               out == IF fn = "checkAppAuthBatch"
                      THEN checkAppAuthBatch(objs, a, enforced)
                      ELSE checkEnvAuthBatch(objs, a, enforced)
           IN  lastAuth' = [lastAuth EXCEPT ![p] =
                              << [fn |-> fn, objects |-> objs, action |-> a,
                                  result |-> out.result, calls |-> out.calls] >>]
    /\ authCount' = [authCount EXCEPT ![p] = @ + 1]
    /\ UNCHANGED <<envVars, pc, op, vars, handlerVars, body, steps, resolverLog, valLog,
                   svcCalls, resp>>

\* ------------------------------------------------------- specification
Step(p) ==
    \/ ListAtoi(p) \/ ListResolve(p) \/ ListDelegate(p) \/ ListReturn(p)
    \/ DeleteAtoi(p) \/ DeleteResolve(p) \/ DeleteDelegate(p) \/ DeleteReturn(p)
    \/ CreateIdentify(p) \/ CreateDecode(p) \/ CreateValidateDecoded(p) \/ CreateAtoi(p)
    \/ CreateResolve(p) \/ CreateNormalize(p) \/ CreateValidate(p) \/ CreateDelegate(p)
    \/ CreateReturn(p)
    \/ UpdateIdentify(p) \/ UpdateDecode(p) \/ UpdateResolve(p) \/ UpdateNormalize(p)
    \/ UpdateValidate(p) \/ UpdateDelegate(p) \/ UpdateReturn(p)
    \/ CheckIdentify(p) \/ CheckDecode(p) \/ CheckAtoi(p) \/ CheckResolve(p)
    \/ CheckNormalize(p) \/ CheckDelegate(p) \/ CheckReturn(p)
    \/ ServiceAuth(p)

Next == \E p \in Procs : Start(p) \/ Step(p) \/ Return(p)

Spec == Init /\ [][Next]_allVars

\* ----------------------------------------------- two requests at once
\* net/http serves every request on a goroutine of its own; here two of them
\* run the handlers at the same time, their steps interleaved in any order
ConcInit ==
    /\ workers = {1, 2}
    /\ AtRest
    /\ CoerceOff

\* the requests the two goroutines are given: every operation, every outcome
\* of every collaborator, on fewer tokens and bodies than one goroutine gets
ConcTokens == {"", "env-group", "bad"}

ConcBodies == [GroupType : ConcTokens, ParentResourceId : ParentIds,
               ResourceIds : { << 21 >> }, AppIds : { << >> }, EnvironmentId : {1},
               UserId : {8}, CheckAuthBatch : {"nil"}]

ConcInputs ==
    \A p \in Procs :
        /\ vars[p].groupType \in ConcTokens
        /\ IF body[p] = << >> THEN request[p] = ZeroDto ELSE body[p][1] \in ConcBodies
        /\ svcRet[p] # << >> => svcRet[p][1].res # "partial"
        /\ authCount[p] <= 1
        /\ lastAuth[p] # << >>
             => /\ lastAuth[p][1].objects = << 101 >>
                /\ lastAuth[p][1].result = [o \in {101} |-> TRUE]

ConcNext == Next /\ ConcInputs'

ConcSpec == ConcInit /\ [][ConcNext]_allVars

\* ------------------------------------------------ type coercion helper
\* pkg/variables/utils: StringifyValue and DestringifyValue. A text is a
\* sequence of characters; the texts of the model are all those of at most
\* MaxText characters over Alphabet, and the words of Words.
Alphabet == {"0", "1", "+", "-", ".", "e", "a", "\""}

Words == { << "t" >>, << "T" >>, << "t", "r", "u", "e" >>, << "T", "r", "u", "e" >>,
           << "T", "R", "U", "E" >>, << "t", "R", "u", "e" >>,
           << "f" >>, << "F" >>, << "f", "a", "l", "s", "e" >>,
           << "F", "a", "l", "s", "e" >>, << "F", "A", "L", "S", "E" >>,
           << "i", "n", "f" >>, << "+", "I", "n", "f" >>, << "N", "a", "N" >>,
           << "-", "n", "a", "n" >>,
           << "\"", "\"", "a", "\"", "\"" >>, << "\"", "a", "\"", "a", "\"" >> }

Texts == UNION { [1..n -> Alphabet] : n \in 0..MaxText } \cup Words

\* the values of interface{} the helper meets
NumberValue(t) == [kind |-> "number", text |-> t, int |-> 0, bool |-> FALSE]
StringValue(t) == [kind |-> "string", text |-> t, int |-> 0, bool |-> FALSE]
BoolValue(b) == [kind |-> "bool", text |-> << >>, int |-> 0, bool |-> b]
IntValue(n) == [kind |-> "int", text |-> << >>, int |-> n, bool |-> FALSE]
\* the float64 a literal denotes is kept as the literal
FloatValue(t) == [kind |-> "float", text |-> t, int |-> 0, bool |-> FALSE]
\* maps, slices, nil: anything else
ComplexValue == [kind |-> "complex", text |-> << >>, int |-> 0, bool |-> FALSE]

IsDigit(c) == DigitVal(c) >= 0
AllDigits(s) == \A i \in 1..Len(s) : IsDigit(s[i])
Unsigned(s) == IF s # << >> /\ Head(s) \in {"+", "-"} THEN Tail(s) ELSE s

\* the letters of the words, lowered
Lower(c) == CASE c = "I" -> "i" [] c = "N" -> "n" [] c = "F" -> "f" [] c = "A" -> "a"
              [] c = "T" -> "t" [] c = "Y" -> "y" [] OTHER -> c
LowerText(s) == [i \in 1..Len(s) |-> Lower(s[i])]

\* strconv.ParseFloat(s, 64), err == nil: a decimal literal (digits with at
\* most one point, then an optional exponent with digits), or inf, infinity
\* with an optional sign, or nan, in any case. The texts of the model hold no
\* hexadecimal literal, no underscore and no literal out of float64's range.
IsSpecialFloat(s) ==
    \/ LowerText(Unsigned(s)) \in { << "i", "n", "f" >>,
                                    << "i", "n", "f", "i", "n", "i", "t", "y" >> }
    \/ LowerText(s) = << "n", "a", "n" >>

IsDecimalFloat(s) ==
    LET lit == Unsigned(s)
        es == { i \in 1..Len(lit) : lit[i] \in {"e", "E"} }
        k == IF es = {} THEN Len(lit) + 1 ELSE CHOOSE i \in es : \A j \in es : i <= j
        mant == SubSeq(lit, 1, k - 1)
        exp == Unsigned(SubSeq(lit, k + 1, Len(lit)))
        points == { i \in 1..Len(mant) : mant[i] = "." }
        digits == SelectSeq(mant, LAMBDA c : c # ".")
    IN  /\ Cardinality(points) <= 1
        /\ digits # << >> /\ AllDigits(digits)
        /\ es # {} => (exp # << >> /\ AllDigits(exp))

ParseFloat(s) ==
    IF IsSpecialFloat(s) \/ IsDecimalFloat(s)
    THEN [val |-> s, err |-> "nil"]
    ELSE [val |-> << >>, err |-> "errSyntax"]

\* strconv.ParseBool
ParseBool(s) ==
    IF s \in { << "1" >>, << "t" >>, << "T" >>, << "T", "R", "U", "E" >>,
               << "t", "r", "u", "e" >>, << "T", "r", "u", "e" >> }
    THEN [val |-> TRUE, err |-> "nil"]
    ELSE IF s \in { << "0" >>, << "f" >>, << "F" >>, << "F", "A", "L", "S", "E" >>,
                    << "f", "a", "l", "s", "e" >>, << "F", "a", "l", "s", "e" >> }
    THEN [val |-> FALSE, err |-> "nil"]
    ELSE [val |-> FALSE, err |-> "errSyntax"]

\* strconv.FormatBool
FormatBool(b) == IF b THEN << "t", "r", "u", "e" >> ELSE << "f", "a", "l", "s", "e" >>

\* strings.Trim(s, "\""): every leading and every trailing quote goes
RECURSIVE TrimLeft(_)
TrimLeft(s) == IF s # << >> /\ Head(s) = "\"" THEN TrimLeft(Tail(s)) ELSE s

RECURSIVE TrimRight(_)
TrimRight(s) ==
    IF s # << >> /\ s[Len(s)] = "\"" THEN TrimRight(SubSeq(s, 1, Len(s) - 1)) ELSE s

Trim(s) == TrimRight(TrimLeft(s))

\* strconv.Itoa
DigitChar(d) == CASE d = 0 -> "0" [] d = 1 -> "1" [] d = 2 -> "2" [] d = 3 -> "3"
                  [] d = 4 -> "4" [] d = 5 -> "5" [] d = 6 -> "6" [] d = 7 -> "7"
                  [] d = 8 -> "8" [] d = 9 -> "9"

RECURSIVE Digits(_)
Digits(n) == IF n < 10 THEN << DigitChar(n) >>
             ELSE Append(Digits(n \div 10), DigitChar(n % 10))

Itoa(n) == IF n < 0 THEN << "-" >> \o Digits(0 - n) ELSE Digits(n)

\* json.Marshal of a json.Number: the token itself when it is a JSON number,
\* 0 for the empty token, and an error with no bytes for any other
IsJsonNumber(t) ==
    LET lit == IF t # << >> /\ Head(t) = "-" THEN Tail(t) ELSE t
        es == { i \in 1..Len(lit) : lit[i] \in {"e", "E"} }
        k == IF es = {} THEN Len(lit) + 1 ELSE CHOOSE i \in es : \A j \in es : i <= j
        mant == SubSeq(lit, 1, k - 1)
        exp == Unsigned(SubSeq(lit, k + 1, Len(lit)))
        points == { i \in 1..Len(mant) : mant[i] = "." }
        p == IF points = {} THEN Len(mant) + 1 ELSE CHOOSE i \in points : TRUE
        whole == SubSeq(mant, 1, p - 1)
        frac == SubSeq(mant, p + 1, Len(mant))
    IN  /\ Cardinality(points) <= 1
        /\ whole # << >> /\ AllDigits(whole)
        /\ Len(whole) > 1 => Head(whole) # "0"
        /\ points # {} => (frac # << >> /\ AllDigits(frac))
        /\ es # {} => (exp # << >> /\ AllDigits(exp))

MarshalNumber(t) ==
    IF t = << >> THEN [val |-> << "0" >>, err |-> "nil"]
    ELSE IF IsJsonNumber(t) THEN [val |-> t, err |-> "nil"]
    ELSE [val |-> << >>, err |-> "errMarshal"]

\* seeded fault: a boolean is quoted as a string is
StringifyValue_BoolQuoted(data) ==
    CASE data.kind = "number" -> [value |-> MarshalNumber(data.text).val, err |-> "nil"]
      [] data.kind = "string" -> [value |-> << "\"" >> \o data.text \o << "\"" >>,
                                  err |-> "nil"]
      [] data.kind = "bool" -> [value |-> << "\"" >> \o FormatBool(data.bool) \o << "\"" >>,
                                err |-> "nil"]
      [] OTHER -> [value |-> << >>, err |-> "errComplex"]

\* the error of json.Marshal is dropped
StringifyValue(data) ==
    CASE data.kind = "number" -> [value |-> MarshalNumber(data.text).val, err |-> "nil"]
      [] data.kind = "string" -> [value |-> << "\"" >> \o data.text \o << "\"" >>,
                                  err |-> "nil"]
      [] data.kind = "bool" -> [value |-> FormatBool(data.bool), err |-> "nil"]
      [] OTHER -> [value |-> << >>, err |-> "errComplex"]

DestringifyValue(Data) ==
    LET intValue == Atoi(Data)
        floatValue == ParseFloat(Data)
        boolValue == ParseBool(Data)
    IN  [value |-> IF intValue.err = "nil" THEN IntValue(intValue.val)
                   ELSE IF floatValue.err = "nil" THEN FloatValue(floatValue.val)
                   ELSE IF boolValue.err = "nil" THEN BoolValue(boolValue.val)
                   ELSE StringValue(Trim(Data)),
         err |-> "nil"]

\* the values a caller may hand to StringifyValue: number tokens, strings,
\* booleans, and values of other types
Values ==
    { NumberValue(t) : t \in Texts } \cup { StringValue(t) : t \in Texts }
        \cup { BoolValue(b) : b \in BOOLEAN } \cup { IntValue(1), ComplexValue }

\* a caller starts from a typed value or from a stored text
CoerceInit ==
    /\ workers = {}
    /\ AtRest
    /\ cOut = NoValue
    /\ cStr2 = NoText
    /\ \/ cpc = "value" /\ cIn \in Values /\ cStr = NoText
       \/ /\ cpc = "text" /\ cIn = NoValue
          /\ cStr \in { [value |-> t, err |-> "nil"] : t \in Texts }

DoStringify ==
    /\ cpc = "value"
    /\ cStr' = StringifyValue(cIn)
    /\ cpc' = "stringified"
    /\ UNCHANGED <<workers, requestVars, cIn, cOut, cStr2>>

DoDestringify ==
    /\ cpc = "text" \/ (cpc = "stringified" /\ cStr.err = "nil")
    /\ LET r == DestringifyValue(cStr.value) IN
         /\ cOut' = r.value
         /\ cpc' = IF r.err = "nil" THEN "destringified" ELSE "failed"
    /\ UNCHANGED <<workers, requestVars, cIn, cStr, cStr2>>

\* the value as a JSON decoder with UseNumber hands it over: numbers as tokens
AsDecoded(v) ==
    IF v.kind = "int" THEN NumberValue(Itoa(v.int))
    ELSE IF v.kind = "float" THEN NumberValue(v.text)
    ELSE v

\* the result is stringified again
DoRestringify ==
    /\ cpc = "destringified"
    /\ cStr2' = StringifyValue(AsDecoded(cOut))
    /\ cpc' = "done"
    /\ UNCHANGED <<workers, requestVars, cIn, cStr, cOut>>

CoerceNext == DoStringify \/ DoDestringify \/ DoRestringify

CoerceSpec == CoerceInit /\ [][CoerceNext]_allVars

\* a handler that has started runs on: the goroutine is scheduled, and the
\* collaborators it calls return
FairSpec == Spec /\ \A p \in Procs : WF_allVars(Step(p))

\* =================================================================== claims
Done(p) == pc[p] = "done"
Delivered(p) == svcCalls[p] # << >>
LastStep(p) == steps[p][Len(steps[p])]

\* the one response of a finished request has this status
Answered(p, status) == Len(resp[p]) = 1 /\ resp[p][1].status = status

\* the group-kind token of the request, once the handler has it in hand: a
\* path parameter for list and delete, the groupType of the decoded body else
HasToken(p) ==
    \/ op[p] \in {"GetActiveResourceGroupList", "DeleteResourceGroup"}
    \/ op[p] \in BodyOps /\ body[p] # << >>
TokenOf(p) == IF op[p] \in BodyOps THEN body[p][1].GroupType ELSE vars[p].groupType

\* parentResourceId before the legacy projections: the decoded value for
\* update, the path resourceId for create and permission-check
PreParent(p) ==
    IF op[p] = "UpdateResourceGroup" THEN body[p][1].ParentResourceId ELSE resourceId[p]

\* C1: in each of the five operations a request whose group-kind token is
\* none of "", "app-group", "env-group" never reaches the service and, when
\* it has finished, was answered with 400.
C1_InvalidKindRejected ==
    \A p \in Procs :
        (HasToken(p) /\ TokenOf(p) \notin ValidTokens)
            => /\ ~Delivered(p)
               /\ Done(p) => Answered(p, StatusBadRequest)

\* C2: every call of getGroupTypeAndAuthFunc returned what the table says:
\* "" and "app-group" give (APP_GROUP, checkAppAuthBatch, no error),
\* "env-group" gives (ENV_GROUP, checkEnvAuthBatch, no error), any other
\* token gives an error with the empty kind and no strategy.
C2_ResolverTable ==
    \A p \in Procs : \A i \in 1..Len(resolverLog[p]) :
        LET c == resolverLog[p][i] IN
        /\ c.token \in {"", "app-group"}
             => c.groupType = APP_GROUP /\ c.authFunc = "checkAppAuthBatch" /\ c.err = "nil"
        /\ c.token = "env-group"
             => c.groupType = ENV_GROUP /\ c.authFunc = "checkEnvAuthBatch" /\ c.err = "nil"
        /\ c.token \notin {"", "app-group", "env-group"}
             => c.groupType = "" /\ c.authFunc = "nil" /\ c.err # "nil"

C2_Witness ==
    \E p \in Procs :
        /\ op[p] = "UpdateResourceGroup"
        /\ Len(resolverLog[p]) = 1
        /\ resolverLog[p][1].token = ""
        /\ resolverLog[p][1].groupType = APP_GROUP

\* C3: in create, update and permission-check, when GetLoggedInUser returned
\* an error or user id 0 the response is 401, the body was not decoded and
\* the service was not invoked.
IdentityFailed(p) ==
    /\ op[p] \in BodyOps
    /\ steps[p] # << >>
    /\ steps[p][1].name = "identify"
    /\ (userId[p] = 0 \/ steps[p][1].err # "nil")

C3_UnauthorizedStops ==
    \A p \in Procs :
        IdentityFailed(p)
            => /\ Done(p)
               /\ Answered(p, StatusUnauthorized)
               /\ Len(steps[p]) = 1
               /\ body[p] = << >>
               /\ request[p] = ZeroDto
               /\ ~Delivered(p)

C3_Witness ==
    \E p \in Procs :
        /\ op[p] = "CheckResourceGroupPermissions"
        /\ IdentityFailed(p)
        /\ userId[p] = 0
        /\ steps[p][1].err = "nil"
        /\ Answered(p, StatusUnauthorized)

\* C4: a create, update or permission-check request of resolved kind
\* APP_GROUP reaches the service with parentResourceId = environmentId when
\* environmentId > 0 and its value before normalization otherwise, and with
\* resourceIds = the decoded appIds when there are any and the decoded
\* resourceIds otherwise; each override is decided on its own.
C4_AppGroupProjection ==
    \A p \in Procs :
        (op[p] \in BodyOps /\ Delivered(p) /\ resolverLog[p][1].groupType = APP_GROUP)
            => LET d == svcCalls[p][1].request
                   b == body[p][1]
               IN  /\ d.ParentResourceId =
                        IF b.EnvironmentId > 0 THEN b.EnvironmentId ELSE PreParent(p)
                   /\ d.ResourceIds = IF Len(b.AppIds) > 0 THEN b.AppIds ELSE b.ResourceIds

\* only one of the two overrides applies
C4_Witness ==
    \E p \in Procs :
        /\ op[p] = "CreateResourceGroup"
        /\ Delivered(p)
        /\ resolverLog[p][1].groupType = APP_GROUP
        /\ body[p][1].EnvironmentId <= 0
        /\ Len(body[p][1].AppIds) > 0
        /\ Len(body[p][1].ResourceIds) > 0
        /\ svcCalls[p][1].request.ResourceIds = body[p][1].AppIds
        /\ svcCalls[p][1].request.ParentResourceId = 5

\* C5: a create, update or permission-check request of resolved kind
\* ENV_GROUP reaches the service with the decoded resourceIds, with
\* parentResourceId as it was before normalization, and with environmentId
\* and appIds as decoded, whatever environmentId and appIds are.
C5_EnvGroupUntouched ==
    \A p \in Procs :
        (op[p] \in BodyOps /\ Delivered(p) /\ resolverLog[p][1].groupType = ENV_GROUP)
            => LET d == svcCalls[p][1].request
                   b == body[p][1]
               IN  /\ d.ResourceIds = b.ResourceIds
                   /\ d.ParentResourceId = PreParent(p)
                   /\ d.EnvironmentId = b.EnvironmentId
                   /\ d.AppIds = b.AppIds

C5_Witness ==
    \E p \in Procs :
        /\ op[p] = "CheckResourceGroupPermissions"
        /\ Delivered(p)
        /\ resolverLog[p][1].groupType = ENV_GROUP
        /\ body[p][1].EnvironmentId > 0
        /\ Len(body[p][1].AppIds) > 0
        /\ svcCalls[p][1].request.ParentResourceId = 5
        /\ svcCalls[p][1].request.ResourceIds = body[p][1].ResourceIds

\* the request the service got is the payload the validator last passed:
\* kind canonical, projections applied, only the strategy attached since
ValidatedNormalized(p) ==
    /\ valLog[p] # << >>
    /\ LET v == valLog[p][Len(valLog[p])]
           d == svcCalls[p][1].request
       IN  /\ v.err = "nil"
           /\ v.payload = [d EXCEPT !.CheckAuthBatch = "nil"]
           /\ v.payload.GroupType \in {APP_GROUP, ENV_GROUP}

\* C6: in create and update the service is invoked only after the validator
\* passed the normalized request; a request the validator rejected is
\* answered with 400 and never reaches the service.
C6_ValidatedBeforeDelegate ==
    \A p \in Procs :
        op[p] \in {"CreateResourceGroup", "UpdateResourceGroup"}
            => /\ Delivered(p) => ValidatedNormalized(p)
               /\ \A i \in 1..Len(valLog[p]) :
                    valLog[p][i].err # "nil"
                        => ~Delivered(p) /\ Done(p) /\ Answered(p, StatusBadRequest)

\* the validator rejects the normalized request of an update
C6_Witness ==
    \E p \in Procs :
        /\ op[p] = "UpdateResourceGroup"
        /\ Len(valLog[p]) = 1
        /\ valLog[p][1].err # "nil"
        /\ valLog[p][1].payload.GroupType = APP_GROUP
        /\ Answered(p, StatusBadRequest)
        /\ ~Delivered(p)

\* C7 as stated: the service is invoked for a permission-check only after the
\* validator passed the normalized request.
C7_CheckValidated ==
    \A p \in Procs :
        (op[p] = "CheckResourceGroupPermissions" /\ Delivered(p)) => ValidatedNormalized(p)

\* C7 amended: permission-check runs the steps of create and update without
\* the Validate step: the validator is never called for it, every request
\* whose kind resolved is delivered normalized to the service, and its 400
\* answers come from decode, the path resourceId or kind resolution only.
CheckPath == << "identify", "decode", "atoi", "resolve", "normalize", "delegate", "service" >>

C7_CheckNeverValidates ==
    \A p \in Procs :
        op[p] = "CheckResourceGroupPermissions"
            => /\ valLog[p] = << >>
               /\ Len(steps[p]) <= Len(CheckPath)
               /\ \A i \in 1..Len(steps[p]) : steps[p][i].name = CheckPath[i]
               /\ (Len(steps[p]) >= 5) <=> (pc[p] = "delegate" \/ Delivered(p))
               /\ (Done(p) /\ Answered(p, StatusBadRequest))
                     => LastStep(p).name \in {"decode", "atoi", "resolve"}

C7_Witness ==
    \E p \in Procs :
        /\ op[p] = "CheckResourceGroupPermissions"
        /\ Delivered(p)
        /\ valLog[p] = << >>
        /\ Answered(p, StatusOK)

\* C8: in create, update and permission-check a body that cannot be decoded
\* is answered with 400 and the request ends: the resolver is not called, no
\* strategy is attached or invoked, the service is not invoked.
DecodeFailed(p) ==
    /\ op[p] \in BodyOps
    /\ \E i \in 1..Len(steps[p]) : steps[p][i].name = "decode" /\ steps[p][i].err # "nil"

C8_DecodeFailureStops ==
    \A p \in Procs :
        DecodeFailed(p)
            => /\ Done(p)
               /\ Answered(p, StatusBadRequest)
               /\ LastStep(p).name = "decode"
               /\ resolverLog[p] = << >>
               /\ authFunc[p] = "nil"
               /\ request[p].CheckAuthBatch = "nil"
               /\ lastAuth[p] = << >>
               /\ ~Delivered(p)

\* the decoder failed after it had filled part of the request
C8_Witness ==
    \E p \in Procs :
        /\ op[p] = "UpdateResourceGroup"
        /\ DecodeFailed(p)
        /\ request[p].GroupType = "env-group"
        /\ Answered(p, StatusBadRequest)

\* C9: a strategy invoked with no objects returns an empty map and calls the
\* enforcer not at all; invoked with objects it calls EnforceInBatch once, on
\* the applications resource for checkAppAuthBatch and the environment
\* resource for checkEnvAuthBatch, with the objects and action it was given,
\* and returns the map of that call.
C9_StrategyCalls ==
    \A p \in Procs :
        lastAuth[p] # << >>
            => LET a == lastAuth[p][1] IN
               /\ Len(a.objects) = 0 => (DOMAIN a.result = {} /\ Len(a.calls) = 0)
               /\ Len(a.objects) > 0
                    => /\ Len(a.calls) = 1
                       /\ a.calls[1].resource =
                            (IF a.fn = "checkAppAuthBatch" THEN "ResourceApplications"
                             ELSE "ResourceEnvironment")
                       /\ a.calls[1].objects = a.objects
                       /\ a.calls[1].action = a.action
                       /\ a.result = a.calls[1].result

C9_Witness ==
    \E p \in Procs :
        /\ lastAuth[p] # << >>
        /\ lastAuth[p][1].fn = "checkEnvAuthBatch"
        /\ Len(lastAuth[p][1].objects) > 0
        /\ DOMAIN lastAuth[p][1].result # {}
        /\ authCount[p] = 2

\* C10: a request is answered exactly once and reaches its service operation
\* at most once; the step that answers is the last one (nothing runs after a
\* 401, a 400 or a service error) and no step is run a second time. Every
\* request finishes: a handler that has not answered can take a step, and
\* each step it takes is a new one of the handler's few steps (or one more of
\* the strategy invocations the service makes before it returns).
Occurrences(p, name) == Cardinality({ i \in 1..Len(steps[p]) : steps[p][i].name = name })

StepNames == {"identify", "decode", "atoi", "resolve", "normalize", "validate", "delegate",
              "service"}

InFlight(p) == pc[p] \notin {"idle", "done"}

C10_OneAnswer ==
    \A p \in Procs :
        /\ Len(resp[p]) <= 1
        /\ Len(svcCalls[p]) <= 1
        /\ Done(p) <=> Len(resp[p]) = 1
        /\ Occurrences(p, "delegate") = Len(svcCalls[p])
        /\ \A i \in 1..Len(steps[p]) : steps[p][i].name \in StepNames
        /\ \A n \in StepNames \ {"validate"} : Occurrences(p, n) <= 1
        /\ Occurrences(p, "validate") <= (IF op[p] = "CreateResourceGroup" THEN 2 ELSE 1)
        /\ authCount[p] <= MaxAuthCalls
        /\ InFlight(p) => ENABLED Step(p)
        /\ resp[p] # << >>
             => /\ resp[p][1].err = LastStep(p).err
                /\ resp[p][1].status = StatusInternalServerError <=>
                      (LastStep(p).name = "service" /\ LastStep(p).err # "nil")
                /\ resp[p][1].status = StatusOK <=>
                      (LastStep(p).name = "service" /\ LastStep(p).err = "nil")

\* once the answer is written the handler takes no step for this request
C10_AnswerIsLast ==
    \A p \in Procs :
        resp[p] # << >>
            => \/ steps'[p] = steps[p] /\ resp'[p] = resp[p] /\ svcCalls'[p] = svcCalls[p]
               \/ steps'[p] = << >> /\ resp'[p] = << >> /\ svcCalls'[p] = << >>

\* a step of a request in flight adds one to the steps taken or to the
\* strategy invocations made, and undoes nothing
C10_Progress ==
    \A p \in Procs :
        (InFlight(p) /\ <<pc[p], steps[p], authCount[p]>>' # <<pc[p], steps[p], authCount[p]>>)
            => /\ Len(steps'[p]) + authCount'[p] = Len(steps[p]) + authCount[p] + 1
               /\ SubSeq(steps'[p], 1, Len(steps[p])) = steps[p]
               /\ authCount'[p] >= authCount[p]

C10_OneAnswerThenStop == [] C10_OneAnswer /\ [][C10_AnswerIsLast /\ C10_Progress]_allVars

C10_Witness ==
    \E p \in Procs :
        /\ op[p] = "DeleteResourceGroup"
        /\ Done(p)
        /\ Len(svcCalls[p]) = 1
        /\ Answered(p, StatusInternalServerError)

\* C11: once the service operation has been invoked, the answer is decided by
\* what it returns and by nothing else: an error gives 500 with that error, a
\* success gives 200 with the result as the service returned it; until it
\* returns nothing is answered.
C11_AnswerFollowsService ==
    \A p \in Procs :
        /\ Delivered(p) => (IF Done(p) THEN svcRet[p] # << >> ELSE resp[p] = << >>)
        /\ svcRet[p] # << >>
             => /\ Delivered(p) /\ Done(p) /\ Len(resp[p]) = 1
                /\ LET r == svcRet[p][1]
                       a == resp[p][1]
                   IN  IF r.err # "nil"
                       THEN a.status = StatusInternalServerError /\ a.err = r.err
                       ELSE a.status = StatusOK /\ a.err = "nil" /\ a.data = r.res

\* the service fails after it has built part of a result
C11_Witness ==
    \E p \in Procs :
        /\ op[p] = "UpdateResourceGroup"
        /\ svcRet[p] = << [res |-> "partial", err |-> "errService"] >>
        /\ Answered(p, StatusInternalServerError)
        /\ resp[p][1].err = "errService"

\* C15: create validates twice, the decoded request before kind resolution
\* and the normalized request after it, and reaches the service only when
\* both passed: a request that fails the first validation is answered with
\* 400 there, whatever its normalized form would be. Update validates once:
\* never twice, and once for every request whose kind resolved.
C15_CreateTwiceUpdateOnce ==
    \A p \in Procs :
        /\ Len(valLog[p]) = Occurrences(p, "validate")
        /\ op[p] = "CreateResourceGroup"
             => /\ Len(valLog[p]) <= 2
                /\ resolverLog[p] # << >>
                     => /\ valLog[p] # << >>
                        /\ valLog[p][1].err = "nil"
                        /\ valLog[p][1].payload = [body[p][1] EXCEPT !.UserId = userId[p]]
                /\ (valLog[p] # << >> /\ valLog[p][1].err # "nil")
                     => /\ Len(valLog[p]) = 1
                        /\ resolverLog[p] = << >>
                        /\ Done(p) /\ Answered(p, StatusBadRequest)
                /\ Delivered(p)
                     => /\ Len(valLog[p]) = 2
                        /\ valLog[p][2].err = "nil"
                        /\ valLog[p][2].payload =
                             [svcCalls[p][1].request EXCEPT !.CheckAuthBatch = "nil"]
        /\ op[p] = "UpdateResourceGroup"
             => /\ Len(valLog[p]) <= 1
                /\ (Occurrences(p, "normalize") = 1 /\ pc[p] # "validate")
                     => Len(valLog[p]) = 1
                /\ Delivered(p) => Len(valLog[p]) = 1

\* the first validation rejects a body whose kind would have resolved
C15_Witness ==
    \E p \in Procs :
        /\ op[p] = "CreateResourceGroup"
        /\ Len(valLog[p]) = 1
        /\ valLog[p][1].err # "nil"
        /\ valLog[p][1].payload.GroupType = "app-group"
        /\ body[p][1].GroupType = "app-group"
        /\ Answered(p, StatusBadRequest)

\* C16: when the group-kind token of a request resolves, the service gets
\* the canonical kind the resolver returned, never the token itself, and the
\* strategy bound to that kind: checkAppAuthBatch with APP_GROUP,
\* checkEnvAuthBatch with ENV_GROUP, never none and never the other one.
C16_KindAndStrategyDelivered ==
    \A p \in Procs :
        (Delivered(p) /\ resolverLog[p][1].err = "nil")
            => LET c == svcCalls[p][1]
                   r == resolverLog[p][1]
               IN  /\ c.groupType = r.groupType
                   /\ c.groupType \in {APP_GROUP, ENV_GROUP}
                   /\ c.groupType \notin Tokens
                   /\ c.authFunc = r.authFunc
                   /\ c.authFunc = (IF c.groupType = APP_GROUP THEN "checkAppAuthBatch"
                                    ELSE "checkEnvAuthBatch")
                   /\ op[p] \in BodyOps
                        => /\ c.request.GroupType = c.groupType
                           /\ c.request.CheckAuthBatch = c.authFunc

\* create canonicalizes the alias of the body and attaches the strategy
C16_Witness ==
    \E p \in Procs :
        /\ op[p] = "CreateResourceGroup"
        /\ Delivered(p)
        /\ body[p][1].GroupType = "env-group"
        /\ svcCalls[p][1].request.GroupType = ENV_GROUP
        /\ svcCalls[p][1].request.CheckAuthBatch = "checkEnvAuthBatch"

\* C17: in create, update and permission-check the request the service gets
\* carries the user id GetLoggedInUser returned, which is not 0, whatever
\* user id the body carried.
C17_ActingUserDelivered ==
    \A p \in Procs :
        (op[p] \in BodyOps /\ Delivered(p))
            => /\ svcCalls[p][1].request.UserId = userId[p]
               /\ userId[p] # 0
               /\ svcCalls[p][1].request.UserId \in { u.userId : u \in LoggedIn }
               /\ steps[p][1].name = "identify" /\ steps[p][1].err = "nil"

C17_Witness ==
    \E p \in Procs :
        /\ op[p] = "CheckResourceGroupPermissions"
        /\ Delivered(p)
        /\ body[p][1].UserId = 8
        /\ svcCalls[p][1].request.UserId = 1

\* ---- one request handled alone: what a handler hands to the service and
\* what it answers, as a function of the request and of what the
\* collaborators it asked returned
NoCall(status, e, data) ==
    [call |-> << >>, resp |-> << [status |-> status, err |-> e, data |-> data] >>]

\* svc: << >> while the service has not returned, else what it returned
ServiceAnswer(o, svc) ==
    IF svc = << >> THEN << >>
    ELSE LET r == svc[1]
         IN  IF r.err # "nil"
             THEN << [status |-> StatusInternalServerError, err |-> r.err,
                      data |-> IF o = "UpdateResourceGroup" THEN r.res ELSE "none"] >>
             ELSE << [status |-> StatusOK, err |-> "nil", data |-> r.res] >>

AloneList(v, svc) ==
    LET a == Atoi(v.resourceId)
        r == getGroupTypeAndAuthFunc(v.groupType)
    IN  IF a.err # "nil" THEN NoCall(StatusBadRequest, a.err, "none")
        ELSE IF r.err # "nil" THEN NoCall(StatusBadRequest, r.err, "none")
        ELSE [call |-> << [op |-> "GetActiveResourceGroupList", request |-> ZeroDto,
                           id |-> a.val, groupType |-> r.groupType,
                           authFunc |-> r.authFunc] >>,
              resp |-> ServiceAnswer("GetActiveResourceGroupList", svc)]

AloneDelete(v, svc) ==
    LET a == Atoi(v.resourceId)
        r == getGroupTypeAndAuthFunc(v.groupType)
    IN  IF a.err # "nil" THEN NoCall(StatusBadRequest, a.err, "")
        ELSE [call |-> << [op |-> "DeleteResourceGroup", request |-> ZeroDto,
                           id |-> a.val, groupType |-> r.groupType,
                           authFunc |-> r.authFunc] >>,
              resp |-> ServiceAnswer("DeleteResourceGroup", svc)]

\* user: what GetLoggedInUser returned; dec: the error of the decoder; b: the
\* decoded body; pre, post: what the validator returned before and after
\* normalization, where the handler asks it
AloneByBody(o, v, user, dec, b, pre, post, svc) ==
    LET a == Atoi(v.resourceId)
        r == getGroupTypeAndAuthFunc(b.GroupType)
        byPath == o # "UpdateResourceGroup"
        req == LegacyProjection(
                   [b EXCEPT !.UserId = user.userId,
                             !.ParentResourceId = IF byPath THEN a.val ELSE @,
                             !.GroupType = r.groupType],
                   r.groupType)
        sent == [req EXCEPT !.CheckAuthBatch = r.authFunc]
    IN  IF user.userId = 0 \/ user.err # "nil"
        THEN NoCall(StatusUnauthorized, user.err, "Unauthorized User")
        ELSE IF dec # "nil" THEN NoCall(StatusBadRequest, dec, "none")
        ELSE IF o = "CreateResourceGroup" /\ pre # "nil"
        THEN NoCall(StatusBadRequest, pre, "none")
        ELSE IF byPath /\ a.err # "nil" THEN NoCall(StatusBadRequest, a.err, "none")
        ELSE IF r.err # "nil" THEN NoCall(StatusBadRequest, r.err, "none")
        ELSE IF o # "CheckResourceGroupPermissions" /\ post # "nil"
        THEN NoCall(StatusBadRequest, post, "none")
        ELSE [call |-> << [op |-> o, request |-> sent, id |-> 0,
                           groupType |-> sent.GroupType,
                           authFunc |-> sent.CheckAuthBatch] >>,
              resp |-> ServiceAnswer(o, svc)]

\* the error the k-th step called name of p's request ended with
StepErr(p, name, k) ==
    LET hits == SelectSeq(steps[p], LAMBDA s : s.name = name)
    IN  IF Len(hits) >= k THEN hits[k].err ELSE "nil"

ValErr(p, k) == IF Len(valLog[p]) >= k THEN valLog[p][k].err ELSE "nil"

\* p's request handled alone, with the outcomes p's own collaborators gave
Alone(p) ==
    IF op[p] = "GetActiveResourceGroupList" THEN AloneList(vars[p], svcRet[p])
    ELSE IF op[p] = "DeleteResourceGroup" THEN AloneDelete(vars[p], svcRet[p])
    ELSE AloneByBody(op[p], vars[p],
                     [userId |-> userId[p], err |-> StepErr(p, "identify", 1)],
                     StepErr(p, "decode", 1),
                     IF body[p] = << >> THEN ZeroDto ELSE body[p][1],
                     ValErr(p, 1),
                     IF op[p] = "CreateResourceGroup" THEN ValErr(p, 2) ELSE ValErr(p, 1),
                     svcRet[p])

\* all that belongs to the request goroutine q serves
RequestState(q) ==
    <<pc[q], op[q], vars[q], userId[q], request[q], resourceId[q], groupType[q],
      authFunc[q], err[q], body[q], steps[q], resolverLog[q], valLog[q], svcCalls[q],
      authCount[q], lastAuth[q], resp[q], svcRet[q]>>

C12_AsAlone ==
    \A p \in workers :
        /\ Delivered(p) => svcCalls[p] = Alone(p).call
        /\ Done(p) => svcCalls[p] = Alone(p).call /\ resp[p] = Alone(p).resp
        /\ resp[p] # << >> => Done(p)

C12_OneRequestPerStep ==
    \E p \in workers : \A q \in Procs \ {p} : RequestState(q)' = RequestState(q)

\* C12: with two requests served at once, in every interleaving of their
\* steps, what each request hands to the service and what it answers is what
\* its handler computes alone from that request and from what the
\* collaborators returned to it, and every step changes the state of one
\* request only: nothing one request writes is read by the other.
C12_Independent == [] C12_AsAlone /\ [][C12_OneRequestPerStep]_allVars

\* two requests of different kinds have both been answered, each its own way
C12_Witness ==
    /\ workers = {1, 2}
    /\ op[1] = "CreateResourceGroup" /\ Done(1) /\ Delivered(1)
    /\ svcCalls[1][1].groupType = ENV_GROUP /\ Answered(1, StatusOK)
    /\ op[2] = "UpdateResourceGroup" /\ Done(2) /\ Delivered(2)
    /\ svcCalls[2][1].groupType = APP_GROUP
    /\ Answered(2, StatusInternalServerError)

\* ---- the conversion helper
\* s with one layer of surrounding quotes off: the quote at each end when
\* both ends have one; or, read loosely, one quote off each end that has one
OneLayerOff(s) ==
    LET first == s # << >> /\ Head(s) = "\""
        last == Len(s) > 1 /\ s[Len(s)] = "\""
        inner == SubSeq(s, 2, Len(s) - 1)
        loose == SubSeq(s, IF first THEN 2 ELSE 1, IF last THEN Len(s) - 1 ELSE Len(s))
    IN  { IF first /\ last THEN inner ELSE s, loose }

Destringified == cpc \in {"destringified", "done"}

\* C13: DestringifyValue returns no error, and its result is the integer the
\* text parses as; else the float it parses as; else the boolean it parses
\* as; else the text with one layer of surrounding double quotes removed,
\* any further quote kept.
C13_StrictOrderOneLayer ==
    /\ cpc # "failed"
    /\ Destringified
         => LET s == cStr.value IN
              IF Atoi(s).err = "nil" THEN cOut = IntValue(Atoi(s).val)
              ELSE IF ParseFloat(s).err = "nil" THEN cOut = FloatValue(s)
              ELSE IF ParseBool(s).err = "nil" THEN cOut = BoolValue(ParseBool(s).val)
              ELSE cOut.kind = "string" /\ cOut.text \in OneLayerOff(s)

\* the integers whose decimal token is a text of the model
IntRange == (0 - 10 ^ MaxText) .. (10 ^ MaxText)

IsDecimalInt(t) == Atoi(t).err = "nil" /\ \E n \in IntRange : t = Itoa(n)

\* C14: for a boolean, and for an integer given as its decimal token,
\* StringifyValue succeeds, DestringifyValue of its text succeeds and returns
\* that boolean or that integer, and StringifyValue of the result, the
\* integer as a number token again, returns the text StringifyValue
\* returned first.
C14_RoundTrip ==
    (cIn.kind = "bool" \/ (cIn.kind = "number" /\ IsDecimalInt(cIn.text)))
        => /\ cpc # "failed"
           /\ cpc # "value" => cStr.err = "nil"
           /\ cpc = "stringified" => ENABLED DoDestringify
           /\ Destringified
                => IF cIn.kind = "bool" THEN cOut = BoolValue(cIn.bool)
                   ELSE cOut = IntValue(CHOOSE n \in IntRange : cIn.text = Itoa(n))
           /\ cpc = "done" => cStr2.err = "nil" /\ cStr2 = cStr

C14_Witness ==
    /\ cpc = "done"
    /\ cIn = NumberValue(<< "-", "1", "0" >>)
    /\ cStr.value = << "-", "1", "0" >>
    /\ cOut = IntValue(-10)
    /\ cStr2 = cStr

====
